---- MODULE Spec2Model ----
(***************************************************************************)
(* SipHash-c-d as implemented in usr.sbin/relayd/siphash.c.                *)
(*                                                                         *)
(* A 64-bit word is a tuple of four 16-bit limbs, least significant limb   *)
(* first, so that all arithmetic keeps its 64-bit width.  A byte string is *)
(* a sequence of numbers in 0..255.  An object in memory (a key, a context)*)
(* has contents and an address; the address is itself a 64-bit word.       *)
(***************************************************************************)
EXTENDS Integers, Sequences, FiniteSets, TLC

\* ------------------------------------------------------------------------
\* 64-bit unsigned arithmetic (u_int64_t)
\* ------------------------------------------------------------------------
LimbMod == 2^16
NLimbs == 64 \div 16

Zero64 == <<0, 0, 0, 0>>

RECURSIVE XorBits(_, _)
XorBits(a, b) ==
    IF a = 0 THEN b
    ELSE IF b = 0 THEN a
    ELSE ((a + b) % 2) + 2 * XorBits(a \div 2, b \div 2)

\* the table of a ^ b for 4-bit a and b, XorNibble[a + 1][b + 1], computed once
XorNibble ==
    SubSeq([a \in 1..16 |-> SubSeq([b \in 1..16 |-> XorBits(a - 1, b - 1)], 1, 16)],
           1, 16)

XorByte(a, b) ==
    XorNibble[(a % 16) + 1][(b % 16) + 1]
    + 16 * XorNibble[(a \div 16) + 1][(b \div 16) + 1]

XorLimb(a, b) ==
    XorByte(a % 256, b % 256) + 256 * XorByte(a \div 256, b \div 256)

\* x ^ y
Xor64(x, y) ==
    <<XorLimb(x[1], y[1]), XorLimb(x[2], y[2]), XorLimb(x[3], y[3]), XorLimb(x[4], y[4])>>

\* the limbs i..4 of x + y, given the carry into limb i
RECURSIVE AddFrom(_, _, _, _)
AddFrom(x, y, i, carry) ==
    IF i > NLimbs THEN <<>>
    ELSE <<(x[i] + y[i] + carry) % LimbMod>>
         \o AddFrom(x, y, i + 1, (x[i] + y[i] + carry) \div LimbMod)

\* x + y, modulo 2^64
Add64(x, y) == AddFrom(x, y, 1, 0)

\* limb i (0-based, modulo 4) of x
LimbAt(x, i) == x[(i % NLimbs) + 1]

\* (the macro without its right-shift half: a plain left shift)
SIP_ROTL_ShiftOnly(x, b) ==
    LET q == b \div 16
        r == b % 16
        low(i) == IF i - 1 - q >= 0 THEN x[i - q] ELSE 0
        below(i) == IF i - 2 - q >= 0 THEN x[i - 1 - q] ELSE 0
        limb(i) == ((low(i) * 2^r) % LimbMod) + (below(i) \div 2^(16 - r))
    IN <<limb(1), limb(2), limb(3), limb(4)>>

\* ((x) << (b)) | ((x) >> (64 - (b))), for 0 < b < 64
SIP_ROTL(x, b) ==
    LET q == b \div 16
        r == b % 16
        limb(i) == ((LimbAt(x, i - 1 + NLimbs - q) * 2^r) % LimbMod)
                   + (LimbAt(x, i - 2 + 2 * NLimbs - q) \div 2^(16 - r))
    IN <<limb(1), limb(2), limb(3), limb(4)>>

\* the little-endian 64-bit value stored in 8 bytes of memory
\* (lemtoh64 on OpenBSD)
lemtoh64(b) ==
    <<b[1] + 256 * b[2], b[3] + 256 * b[4], b[5] + 256 * b[6], b[7] + 256 * b[8]>>

\* the 8 bytes that store a 64-bit value little-endian (htolem64 on OpenBSD)
htolem64(x) ==
    <<x[1] % 256, x[1] \div 256, x[2] % 256, x[2] \div 256,
      x[3] % 256, x[3] \div 256, x[4] % 256, x[4] \div 256>>

\* le64toh(x) / htole64(x) of FreeBSD's <sys/endian.h> on a little-endian
\* host: a conversion of its ARGUMENT to uint64_t, ((uint64_t)(x)).  It takes
\* a value, not a pointer: handed a pointer it yields the address.
le64toh(x) == x
htole64(x) == x

\* ------------------------------------------------------------------------
\* The SipRound and the round loop, on the four state words v[0..3]
\* (v is a 4-tuple, v[1] is the code's v[0])
\* ------------------------------------------------------------------------
\* v[0] += v[1]; v[2] += v[3]; v[1] = ROTL(v[1], 13); v[3] = ROTL(v[3], 16)
MixA(v) == <<Add64(v[1], v[2]), SIP_ROTL(v[2], 13), Add64(v[3], v[4]), SIP_ROTL(v[4], 16)>>
\* v[1] ^= v[0]; v[3] ^= v[2]; v[0] = ROTL(v[0], 32)
MixB(v) == <<SIP_ROTL(v[1], 32), Xor64(v[2], v[1]), v[3], Xor64(v[4], v[3])>>
\* v[2] += v[1]; v[0] += v[3]; v[1] = ROTL(v[1], 17); v[3] = ROTL(v[3], 21)
MixC(v) == <<Add64(v[1], v[4]), SIP_ROTL(v[2], 17), Add64(v[3], v[2]), SIP_ROTL(v[4], 21)>>
\* v[1] ^= v[2]; v[3] ^= v[0]; v[2] = ROTL(v[2], 32)
MixD(v) == <<v[1], Xor64(v[2], v[3]), SIP_ROTL(v[3], 32), Xor64(v[4], v[1])>>

SipRound(v) == MixD(MixC(MixB(MixA(v))))

\* while (rounds--) { SipRound }, for a count that reaches zero
RECURSIVE SipHash_Rounds(_, _)
SipHash_Rounds(v, rounds) ==
    IF rounds = 0 THEN v ELSE SipHash_Rounds(SipRound(v), rounds - 1)

\* The same loop one evaluation at a time.  A frame l holds the parameter
\* rounds (an int), the state words v, the number of rounds done (count), the
\* argument of the call (n), and undef: the call has executed an operation
\* whose behaviour is undefined.
IntMin == -2147483647 - 1
IntMax == -(IntMin + 1)

\* (the loop written while (--rounds): the decrement before the test)
LoopTest_PreDecrement(l) ==
    IF l.rounds = IntMin
    THEN {[l EXCEPT !.rounds = IntMax, !.pc = "body", !.undef = TRUE],
          [l EXCEPT !.pc = "done", !.undef = TRUE]}
    ELSE {[l EXCEPT !.rounds = @ - 1,
                    !.pc = IF l.rounds - 1 # 0 THEN "body" ELSE "done"]}

\* while (rounds--): the frames that the test of the condition and the
\* decrement can lead to.  Decrementing INT_MIN overflows an int, which is
\* undefined: the counter may wrap and the loop go on, or the loop may be left.
LoopTest(l) ==
    IF l.rounds = IntMin
    THEN {[l EXCEPT !.rounds = IntMax, !.pc = "body", !.undef = TRUE],
          [l EXCEPT !.pc = "done", !.undef = TRUE]}
    ELSE {[l EXCEPT !.rounds = @ - 1,
                    !.pc = IF l.rounds # 0 THEN "body" ELSE "done"]}

\* the body of the loop: one SipRound
LoopBody(l) == [l EXCEPT !.v = SipRound(@), !.count = @ + 1, !.pc = "test"]

\* ------------------------------------------------------------------------
\* Bounds of the model
\* ------------------------------------------------------------------------
\* largest round count a caller passes for rc and rf
MaxRounds == 1
\* largest total number of input bytes fed to one computation
MaxTotal == 12
\* largest number of calls recorded per context when two contexts interleave
MaxCalls == 3
\* the lengths the streaming caller passes to SipHash_Update
ChunkLens == {0, 3, 6, 8, 9}
\* the lengths the one-shot callers pass to SipHash
ShotLens == {0, MaxTotal}
\* the lengths passed to SipHash_Update when two contexts interleave
TwoLens == {3, 6}

\* ------------------------------------------------------------------------
\* Objects in memory: keys, input, contexts
\* ------------------------------------------------------------------------
\* sizeof(ctx->buf)
BufLen == 8

VARIABLES
    FreeBSD,    \* TRUE when the file is built with __FreeBSD__ defined
    rc, rf,     \* the round counts the caller uses throughout
    mem,        \* mem[i]: the contents of the caller's SIPHASH_CTX object i
    life,       \* life[i]: "raw" before SipHash_Init, "live", "wiped" after SipHash_End
    key,        \* key[i]: the key object given to the latest SipHash_Init (0: none)
    fed,        \* fed[i]: bytes of input given to SipHash_Update since SipHash_Init
    dst,        \* dst[i]: the caller's 8-byte digest buffer handed to SipHash_Final
    hist,       \* hist[i]: the calls made on context i (two-context runs only)
    last,       \* what the latest call did
    shot,       \* shot[s]: the latest one-shot SipHash() call of caller s
    loop        \* the frame of a running SipHash_Rounds call, stepped one test at a time

vars == <<FreeBSD, rc, rf, mem, life, key, fed, dst, hist, last, shot, loop>>

Ctxs == {1, 2}
Keys == {1, 2, 3}
Callers == {1, 2}
RoundCounts == 0..MaxRounds

\* The key objects.  Keys 1 and 2 hold the same 16 bytes (00 01 .. 0f) at
\* different addresses; key 3 holds other bytes.
KeyBytes(k) ==
    IF k = 3 THEN [j \in 1..16 |-> (29 * j + 7) % 256]
             ELSE [j \in 1..16 |-> j - 1]
KeyAddr(k) == <<57344 + 16 * k, 65535, 32767, 0>>

\* &key->k0 and &key->k1
AddrK0(kp) == KeyAddr(kp)
AddrK1(kp) == Add64(KeyAddr(kp), <<8, 0, 0, 0>>)

\* The input: the caller feeds consecutive pieces of the byte string
\* 00 01 02 ... ; Msg(a, n) is the n bytes that follow its first a bytes.
Msg(a, n) == [j \in 1..n |-> (a + j - 1) % 256]

\* The addresses of the callers' context objects, and of the context local
\* to SipHash() in caller s's call.
CtxAddr(i) == <<49152 + 64 * i, 65535, 32767, 0>>
StackAddr(s) == <<53248 + 256 * s, 65535, 32767, 0>>

\* (u_int64_t *)ctx->buf as an address: buf follows v[0..3]
BufAddr(p) == Add64(p, <<32, 0, 0, 0>>)

ZeroBuf == <<0, 0, 0, 0, 0, 0, 0, 0>>
ZeroCtx == [v |-> <<Zero64, Zero64, Zero64, Zero64>>, buf |-> ZeroBuf, bytes |-> 0]

\* what an object holds before it is initialised: left-over bytes
RawCtx == [v |-> <<<<43981, 1, 2, 3>>, <<4, 5, 6, 7>>, <<8, 9, 10, 11>>, <<12, 13, 14, 15>>>>,
           buf |-> <<161, 162, 163, 164, 165, 166, 167, 168>>, bytes |-> 5]
RawDst == <<170, 170, 170, 170, 170, 170, 170, 170>>

\* ------------------------------------------------------------------------
\* SipHash_Init
\* ------------------------------------------------------------------------
\* (the assignments without ctx->bytes = 0)
InitWith_KeepCounter(c, k0, k1) ==
    [c EXCEPT !.v = << Xor64(<<\H6575, \H7073, \H6d65, \H736f>>, k0),
                       Xor64(<<\H6f6d, \H6e64, \H7261, \H646f>>, k1),
                       Xor64(<<\H7261, \H6e65, \H6765, \H6c79>>, k0),
                       Xor64(<<\H6573, \H7974, \H6462, \H7465>>, k1) >>,
              !.buf = ZeroBuf]

\* the assignments to the context, given k0 and k1
InitWith(c, k0, k1) ==
    [c EXCEPT !.v = << Xor64(<<\H6575, \H7073, \H6d65, \H736f>>, k0),
                       Xor64(<<\H6f6d, \H6e64, \H7261, \H646f>>, k1),
                       Xor64(<<\H7261, \H6e65, \H6765, \H6c79>>, k0),
                       Xor64(<<\H6573, \H7974, \H6462, \H7465>>, k1) >>,
              !.buf = ZeroBuf,
              !.bytes = 0]

\* k0 = le64toh(&key->k0) with __FreeBSD__, lemtoh64(&key->k0) without
KeyWord0(kp) ==
    IF FreeBSD THEN le64toh(AddrK0(kp)) ELSE lemtoh64(SubSeq(KeyBytes(kp), 1, 8))
KeyWord1(kp) ==
    IF FreeBSD THEN le64toh(AddrK1(kp)) ELSE lemtoh64(SubSeq(KeyBytes(kp), 9, 16))

SipHash_Init(c, kp) == InitWith(c, KeyWord0(kp), KeyWord1(kp))

\* ------------------------------------------------------------------------
\* SipHash_CRounds: c is the context's contents, p its address
\* ------------------------------------------------------------------------
\* the message word m
BlockWord(c, p) ==
    IF FreeBSD THEN le64toh(BufAddr(p)) ELSE lemtoh64(c.buf)

\* ctx->v[3] ^= m; SipHash_Rounds(ctx, rounds); ctx->v[0] ^= m
CRoundsWith(c, m, rounds) ==
    [c EXCEPT !.v = [SipHash_Rounds([c.v EXCEPT ![4] = Xor64(@, m)], rounds)
                        EXCEPT ![1] = Xor64(@, m)]]

SipHash_CRounds(c, p, rounds) == CRoundsWith(c, BlockWord(c, p), rounds)

\* ------------------------------------------------------------------------
\* SipHash_Update.  A call in progress is a record x: the context's contents
\* (ctx), the set of buf indices written so far (wr) and the staging blocks
\* handed to SipHash_CRounds so far (abs).
\* ------------------------------------------------------------------------
Enter(c) == [ctx |-> c, wr |-> {}, abs |-> <<>>]

\* the bytes of d that memcpy(&buf[off], d, Len(d)) puts inside buf[0..7]
BufStore(buf, off, d) ==
    LET b(j) == IF j - 1 >= off /\ j - 1 < off + Len(d) THEN d[j - off] ELSE buf[j]
    IN <<b(1), b(2), b(3), b(4), b(5), b(6), b(7), b(8)>>

\* the bytes of d that the same memcpy puts past the end of buf
Spill(off, d) ==
    IF off + Len(d) > BufLen THEN SubSeq(d, BufLen - off + 1, Len(d)) ELSE <<>>

RECURSIVE LeValue(_)
LeValue(b) == IF b = <<>> THEN 0 ELSE b[1] + 256 * LeValue(Tail(b))

\* A write past buf[7] is undefined.  It lands in what follows buf in the
\* object, the byte counter: either the counter comes out as stored (hit
\* FALSE), or its low-order bytes are replaced by the spilled bytes (hit TRUE).
Clobber(bytes, spill, hit) ==
    IF spill = <<>> \/ ~hit THEN bytes
    ELSE LET k == IF Len(spill) < 4 THEN Len(spill) ELSE 4
         IN (bytes \div 256^k) * 256^k + LeValue(SubSeq(spill, 1, k))

\* memcpy(&ctx->buf[off], d, Len(d))
Memcpy(x, off, d, hit) ==
    [x EXCEPT !.ctx.buf = BufStore(@, off, d),
              !.ctx.bytes = Clobber(@, Spill(off, d), hit),
              !.wr = @ \cup (off..(off + Len(d) - 1))]

\* SipHash_CRounds(ctx, rc) within a call
Absorb(x, p, rounds) ==
    [x EXCEPT !.ctx = SipHash_CRounds(@, p, rounds),
              !.abs = Append(@, x.ctx.buf)]

\* the while loop over whole blocks, then the copy of the tail
RECURSIVE UpdateBlocks(_, _, _, _, _, _)
UpdateBlocks(x, p, rounds, ptr, used, hit) ==
    IF Len(ptr) >= BufLen
    THEN UpdateBlocks(Absorb(Memcpy(x, 0, SubSeq(ptr, 1, BufLen), hit), p, rounds),
                      p, rounds, SubSeq(ptr, BufLen + 1, Len(ptr)), used, hit)
    ELSE IF Len(ptr) > 0 THEN Memcpy(x, used, ptr, hit)
    ELSE x

\* (the top-up written memcpy(ctx->buf, ptr, free): the prefix copied over the
\* staged bytes instead of behind them)
UpdateCopy_TopUpAtStart(c, p, rounds, src, hit) ==
    LET used == c.bytes % BufLen
        x    == Enter([c EXCEPT !.bytes = @ + Len(src)])
        free == BufLen - used
    IN IF used > 0
       THEN IF Len(src) >= free
            THEN UpdateBlocks(Absorb(Memcpy(x, 0, SubSeq(src, 1, free), hit), p, rounds),
                              p, rounds, SubSeq(src, free + 1, Len(src)), used, hit)
            ELSE Memcpy(x, used, src, hit)
       ELSE UpdateBlocks(x, p, rounds, src, used, hit)

\* the function after its test of len == 0
UpdateCopy(c, p, rounds, src, hit) ==
    LET used == c.bytes % BufLen
        x    == Enter([c EXCEPT !.bytes = @ + Len(src)])
        free == BufLen - used
    IN IF used > 0
       THEN IF Len(src) >= free
            THEN UpdateBlocks(Absorb(Memcpy(x, used, SubSeq(src, 1, free), hit), p, rounds),
                              p, rounds, SubSeq(src, free + 1, Len(src)), used, hit)
            ELSE Memcpy(x, used, src, hit)
       ELSE UpdateBlocks(x, p, rounds, src, used, hit)

\* (an update that takes a zero length as a request to absorb the staged bytes)
SipHash_Update_FlushOnZero(c, p, rounds, src, hit) ==
    IF Len(src) = 0 THEN Absorb(Enter(c), p, rounds)
    ELSE UpdateCopy(c, p, rounds, src, hit)

SipHash_Update(c, p, rounds, src, hit) ==
    IF Len(src) = 0 THEN Enter(c) ELSE UpdateCopy(c, p, rounds, src, hit)

\* ------------------------------------------------------------------------
\* SipHash_End, SipHash_Final, SipHash
\* ------------------------------------------------------------------------
\* memset(&ctx->buf[used], 0, free - 1); ctx->buf[7] = ctx->bytes
PadBlock(c) ==
    LET used == c.bytes % BufLen
        free == BufLen - used
        b(j) == IF j = BufLen THEN c.bytes % 256
                ELSE IF j - 1 >= used /\ j - 1 < used + free - 1 THEN 0
                ELSE c.buf[j]
    IN <<b(1), b(2), b(3), b(4), b(5), b(6), b(7), b(8)>>

\* (a wipe that clears the state words only)
Wipe_StateWordsOnly(c) == [c EXCEPT !.v = ZeroCtx.v]

\* explicit_bzero(ctx, sizeof(*ctx))
Wipe(c) == [c EXCEPT !.v = ZeroCtx.v, !.buf = ZeroBuf, !.bytes = 0]

\* r = (v[0] ^ v[1]) ^ (v[2] ^ v[3])
Digest(v) == Xor64(Xor64(v[1], v[2]), Xor64(v[3], v[4]))

\* ctx->v[2] ^= 0xff; SipHash_Rounds(ctx, rf)
EndRounds(c, rfin) ==
    [c EXCEPT !.v = SipHash_Rounds([c.v EXCEPT ![3] = Xor64(@, <<255, 0, 0, 0>>)], rfin)]

\* (the wipe moved before the read of the digest)
EndReturn_WipeFirst(c, blk) == [ctx |-> Wipe(c), r |-> Digest(Wipe(c).v), abs |-> <<blk>>]

\* r is read, the context wiped, r returned.  The call's record: the context
\* it leaves (ctx), the value it returns (r), the block it absorbed (abs).
EndReturn(c, blk) == [ctx |-> Wipe(c), r |-> Digest(c.v), abs |-> <<blk>>]

SipHash_End(c, p, rcnt, rfin) ==
    EndReturn(EndRounds(SipHash_CRounds([c EXCEPT !.buf = PadBlock(c)], p, rcnt), rfin),
              PadBlock(c))

\* d is the contents of the 8 bytes at dst before the call, e the record of
\* the call of SipHash_End.  With __FreeBSD__ the statement is
\* dst = (u_int64_t *)htole64(r): an assignment to the parameter, which
\* stores nothing at the caller's buffer.
FinalStore(d, e) ==
    [ctx |-> e.ctx, r |-> e.r, abs |-> e.abs,
     dst |-> IF FreeBSD THEN d ELSE htolem64(e.r)]

SipHash_Final(d, c, p, rcnt, rfin) == FinalStore(d, SipHash_End(c, p, rcnt, rfin))

\* sp is the address of the local SIPHASH_CTX, which starts uninitialised
SipHash(kp, rcnt, rfin, src, sp) ==
    SipHash_End(SipHash_Update(SipHash_Init(RawCtx, kp), sp, rcnt, src, FALSE).ctx,
                sp, rcnt, rfin)

\* ------------------------------------------------------------------------
\* The callers: one action per call of the interface
\* ------------------------------------------------------------------------
\* last: the latest call.  op its name, i the context (or caller) it was made
\* on, n its length (or key) argument, wr the buf indices it wrote, abs the
\* blocks it absorbed, r the value it returned, local what SipHash() left in
\* its local context.
NoCall == [op |-> "none", i |-> 0, n |-> 0, wr |-> {}, abs |-> <<>>, r |-> Zero64,
           local |-> RawCtx]
NoShot == [k |-> 0, n |-> 0, r |-> Zero64]
Idle   == [pc |-> "idle", n |-> 0, rounds |-> 0, v |-> ZeroCtx.v, v0 |-> ZeroCtx.v,
           count |-> 0, undef |-> FALSE]

\* the input given to context i since its SipHash_Init
Input(i) == Msg(0, fed[i])

\* the call record appended to hist[i] when the run keeps histories
Logged(h, tr, e) == IF tr THEN Append(h, e) ELSE h

\* SipHash_Init(&ctx_i, &key_k)
CallInit(i, k, tr) ==
    /\ tr => Len(hist[i]) < MaxCalls
    /\ mem' = [mem EXCEPT ![i] = SipHash_Init(mem[i], k)]
    /\ life' = [life EXCEPT ![i] = "live"]
    /\ key' = [key EXCEPT ![i] = k]
    /\ fed' = [fed EXCEPT ![i] = 0]
    /\ hist' = [hist EXCEPT ![i] = Logged(@, tr, [op |-> "Init", a |-> k, hit |-> FALSE])]
    /\ last' = [NoCall EXCEPT !.op = "Init", !.i = i, !.n = k]
    /\ UNCHANGED <<FreeBSD, rc, rf, dst, shot, loop>>

\* SipHash_Update(&ctx_i, rc, rf, src, n), src the next n bytes of the input;
\* hit chooses the outcome of a write past the staging buffer, and is a
\* choice only in a call that makes one
UpdateCall(i, n, hit, tr, max) ==
    /\ life[i] = "live"
    /\ fed[i] + n <= max
    /\ tr => Len(hist[i]) < MaxCalls
    /\ \E x \in {SipHash_Update(mem[i], CtxAddr(i), rc, Msg(fed[i], n), hit)} :
          /\ hit => ~(x.wr \subseteq 0..(BufLen - 1))
          /\ mem' = [mem EXCEPT ![i] = x.ctx]
          /\ last' = [NoCall EXCEPT !.op = "Update", !.i = i, !.n = n,
                                    !.wr = x.wr, !.abs = x.abs]
    /\ fed' = [fed EXCEPT ![i] = @ + n]
    /\ hist' = [hist EXCEPT ![i] = Logged(@, tr, [op |-> "Update", a |-> n, hit |-> hit])]
    /\ UNCHANGED <<FreeBSD, rc, rf, life, key, dst, shot, loop>>

\* (an update that stages its bytes in one buffer shared by all contexts)
CallUpdate_SharedBuffer(i, n, hit, tr) ==
    /\ life[i] = "live"
    /\ fed[i] + n <= MaxTotal
    /\ tr => Len(hist[i]) < MaxCalls
    /\ \E x \in {SipHash_Update(mem[i], CtxAddr(i), rc, Msg(fed[i], n), hit)} :
          /\ hit => ~(x.wr \subseteq 0..(BufLen - 1))
          /\ mem' = [j \in Ctxs |-> IF j = i THEN x.ctx
                                    ELSE [mem[j] EXCEPT !.buf = x.ctx.buf]]
          /\ last' = [NoCall EXCEPT !.op = "Update", !.i = i, !.n = n,
                                    !.wr = x.wr, !.abs = x.abs]
    /\ fed' = [fed EXCEPT ![i] = @ + n]
    /\ hist' = [hist EXCEPT ![i] = Logged(@, tr, [op |-> "Update", a |-> n, hit |-> hit])]
    /\ UNCHANGED <<FreeBSD, rc, rf, life, key, dst, shot, loop>>

\* the call in a computation of at most MaxTotal bytes
CallUpdate(i, n, hit, tr) == UpdateCall(i, n, hit, tr, MaxTotal)

\* r = SipHash_End(&ctx_i, rc, rf)
CallEnd(i, tr) ==
    /\ life[i] = "live"
    /\ tr => Len(hist[i]) < MaxCalls
    /\ \E e \in {SipHash_End(mem[i], CtxAddr(i), rc, rf)} :
          /\ mem' = [mem EXCEPT ![i] = e.ctx]
          /\ last' = [NoCall EXCEPT !.op = "End", !.i = i, !.abs = e.abs, !.r = e.r]
    /\ life' = [life EXCEPT ![i] = "wiped"]
    /\ hist' = [hist EXCEPT ![i] = Logged(@, tr, [op |-> "End", a |-> 0, hit |-> FALSE])]
    /\ UNCHANGED <<FreeBSD, rc, rf, key, fed, dst, shot, loop>>

\* SipHash_Final(dst_i, &ctx_i, rc, rf)
CallFinal(i) ==
    /\ life[i] = "live"
    /\ \E f \in {SipHash_Final(dst[i], mem[i], CtxAddr(i), rc, rf)} :
          /\ mem' = [mem EXCEPT ![i] = f.ctx]
          /\ dst' = [dst EXCEPT ![i] = f.dst]
          /\ last' = [NoCall EXCEPT !.op = "Final", !.i = i, !.abs = f.abs, !.r = f.r]
    /\ life' = [life EXCEPT ![i] = "wiped"]
    /\ UNCHANGED <<FreeBSD, rc, rf, key, fed, hist, shot, loop>>

\* caller s: r = SipHash(&key_k, rc, rf, src, n), src the first n input bytes;
\* keep: the caller stores r in shot[s].  The streaming caller (keep FALSE)
\* makes its one-shot calls before it first uses its context.
CallSipHash(s, k, n, keep) ==
    /\ keep \/ life[s] = "raw"
    /\ \E e \in {SipHash(k, rc, rf, Msg(0, n), StackAddr(s))} :
          /\ last' = [NoCall EXCEPT !.op = "SipHash", !.i = s, !.n = n, !.abs = e.abs,
                                    !.r = e.r, !.local = e.ctx]
          /\ shot' = IF keep THEN [shot EXCEPT ![s] = [k |-> k, n |-> n, r |-> e.r]]
                             ELSE shot
    /\ UNCHANGED <<FreeBSD, rc, rf, mem, life, key, fed, dst, hist, loop>>

\* ------------------------------------------------------------------------
\* Specifications
\* ------------------------------------------------------------------------
InitObjects ==
    /\ mem = [i \in Ctxs |-> RawCtx]
    /\ life = [i \in Ctxs |-> "raw"]
    /\ key = [i \in Ctxs |-> 0]
    /\ fed = [i \in Ctxs |-> 0]
    /\ dst = [i \in Ctxs |-> RawDst]
    /\ hist = [i \in Ctxs |-> <<>>]
    /\ last = NoCall
    /\ shot = [s \in Callers |-> NoShot]
    /\ loop = Idle

\* one caller streaming through one context, and making one-shot calls
Init ==
    /\ FreeBSD \in BOOLEAN
    /\ rc \in RoundCounts
    /\ rf \in RoundCounts
    /\ InitObjects

Next ==
    \/ \E k \in {1, 3} : CallInit(1, k, FALSE)
    \/ \E n \in ChunkLens, hit \in BOOLEAN : CallUpdate(1, n, hit, FALSE)
    \/ CallEnd(1, FALSE)
    \/ CallFinal(1)
    \/ \E k \in {1, 3}, n \in ShotLens : CallSipHash(1, k, n, FALSE)

Spec == Init /\ [][Next]_vars

\* two callers making one-shot calls and keeping the results
NextShot == \E s \in Callers, k \in Keys, n \in ShotLens : CallSipHash(s, k, n, TRUE)

SpecShot == Init /\ [][NextShot]_vars

\* two contexts, one per caller, driven by interleaved calls whose history
\* is kept; caller i uses key i
InitTwo ==
    /\ FreeBSD \in BOOLEAN
    /\ rc = MaxRounds
    /\ rf = MaxRounds
    /\ InitObjects

NextTwo ==
    \E i \in Ctxs :
        \/ CallInit(i, i, TRUE)
        \/ \E n \in TwoLens, hit \in BOOLEAN : CallUpdate(i, n, hit, TRUE)
        \/ CallEnd(i, TRUE)

SpecTwo == InitTwo /\ [][NextTwo]_vars

\* ------------------------------------------------------------------------
\* A call of SipHash_Rounds, one evaluation of the loop at a time
\* ------------------------------------------------------------------------
\* the counts a caller may pass: an int, negative ones included
LoopArgs == {IntMin, IntMin + 1, -1} \cup RoundCounts
\* the number of rounds after which the model stops following a call
MaxIter == MaxRounds + 2

\* SipHash_Rounds(ctx, n) is called on the state that SipHash_Init makes of key k
RoundsCall(n, k) ==
    /\ loop.pc \in {"idle", "done"}
    /\ \E v \in {SipHash_Init(RawCtx, k).v} :
          loop' = [pc |-> "test", n |-> n, rounds |-> n, v |-> v, v0 |-> v,
                   count |-> 0, undef |-> FALSE]
    /\ UNCHANGED <<FreeBSD, rc, rf, mem, life, key, fed, dst, hist, last, shot>>

RoundsTest ==
    /\ loop.pc = "test"
    /\ loop' \in LoopTest(loop)
    /\ UNCHANGED <<FreeBSD, rc, rf, mem, life, key, fed, dst, hist, last, shot>>

RoundsBody ==
    /\ loop.pc = "body"
    /\ loop.count < MaxIter
    /\ loop' = LoopBody(loop)
    /\ UNCHANGED <<FreeBSD, rc, rf, mem, life, key, fed, dst, hist, last, shot>>

InitRounds ==
    /\ FreeBSD \in BOOLEAN
    /\ rc = 0
    /\ rf = 0
    /\ InitObjects

NextRounds ==
    \/ \E n \in LoopArgs, k \in Keys : RoundsCall(n, k)
    \/ RoundsTest
    \/ RoundsBody

SpecRounds == InitRounds /\ [][NextRounds]_vars

\* One computation of up to MaxLong bytes, given in chunks that leave and
\* find staged bytes.
MaxLong == 16
LongLens == {4, 6}

NextLong ==
    \/ CallInit(1, 1, FALSE)
    \/ \E n \in LongLens, hit \in BOOLEAN : UpdateCall(1, n, hit, FALSE, MaxLong)
    \/ CallEnd(1, FALSE)

SpecLong == Init /\ [][NextLong]_vars

\* One context that its caller initializes again and again, with one key or
\* another, in whatever state the context is.
NextReinit ==
    \/ \E k \in {1, 3} : CallInit(1, k, TRUE)
    \/ \E n \in TwoLens, hit \in BOOLEAN : CallUpdate(1, n, hit, TRUE)
    \/ CallEnd(1, TRUE)

SpecReinit == Init /\ [][NextReinit]_vars

\* The two primitives are external functions of the file: a caller can apply
\* them to its context itself.

\* SipHash_CRounds(&ctx_i, n)
CallCRounds(i, n) ==
    /\ life[i] = "live"
    /\ Len(hist[i]) < MaxCalls
    /\ \E c \in {SipHash_CRounds(mem[i], CtxAddr(i), n)} :
          mem' = [mem EXCEPT ![i] = c]
    /\ last' = [NoCall EXCEPT !.op = "CRounds", !.i = i, !.n = n, !.abs = <<mem[i].buf>>]
    /\ hist' = [hist EXCEPT ![i] = Append(@, [op |-> "CRounds", a |-> n, hit |-> FALSE])]
    /\ UNCHANGED <<FreeBSD, rc, rf, life, key, fed, dst, shot, loop>>

\* SipHash_Rounds(&ctx_i, n), n >= 0
CallRounds(i, n) ==
    /\ life[i] = "live"
    /\ Len(hist[i]) < MaxCalls
    /\ \E v \in {SipHash_Rounds(mem[i].v, n)} :
          mem' = [mem EXCEPT ![i].v = v]
    /\ last' = [NoCall EXCEPT !.op = "Rounds", !.i = i, !.n = n]
    /\ hist' = [hist EXCEPT ![i] = Append(@, [op |-> "Rounds", a |-> n, hit |-> FALSE])]
    /\ UNCHANGED <<FreeBSD, rc, rf, life, key, fed, dst, shot, loop>>

\* one context, set up by SipHash_Init and SipHash_Update, on which the
\* caller applies the primitives
NextPrim ==
    \/ \E k \in {1, 3} : CallInit(1, k, TRUE)
    \/ \E n \in TwoLens, hit \in BOOLEAN : CallUpdate(1, n, hit, TRUE)
    \/ \E n \in RoundCounts : CallCRounds(1, n)
    \/ \E n \in RoundCounts : CallRounds(1, n)

SpecPrim == InitTwo /\ [][NextPrim]_vars

\* ------------------------------------------------------------------------
\* Properties
\* ------------------------------------------------------------------------

\* C1 (streaming equivalence): the digest that SipHash_End or SipHash_Final
\* returns after SipHash_Init and any sequence of SipHash_Update calls is the
\* digest the one-shot SipHash returns for the same key, round counts and
\* concatenated input.
C1_StreamingEquivalence ==
    last.op \in {"End", "Final"} =>
        last.r = SipHash(key[last.i], rc, rf, Input(last.i), StackAddr(last.i)).r

\* C2 (determinism): two one-shot calls with equal key bytes, equal round
\* counts and equal input bytes return the same digest, wherever the key and
\* the context object live in memory.
C2_Determinism ==
    \A s \in Callers, t \in Callers :
        (/\ shot[s].k # 0
         /\ shot[t].k # 0
         /\ KeyBytes(shot[s].k) = KeyBytes(shot[t].k)
         /\ shot[s].n = shot[t].n)
        => shot[s].r = shot[t].r

\* C3 (state wipe): once SipHash_End has returned (called directly, through
\* SipHash_Final or through SipHash), every field of the context it was given
\* is zero: v[0..3], the staging buffer and the byte counter.
C3_StateWipe ==
    /\ \A i \in Ctxs : life[i] = "wiped" => mem[i] = ZeroCtx
    /\ last.op = "SipHash" => last.local = ZeroCtx

\* a computation with bytes left in its staging buffer has been ended
C3_Witness ==
    /\ last.op \in {"End", "Final"}
    /\ life[last.i] = "wiped"
    /\ fed[last.i] % BufLen # 0

\* C4 (SipHash_Final delivers the digest): after SipHash_Final the caller's
\* 8-byte buffer holds the little-endian encoding of the digest.
C4_FinalDelivers ==
    last.op = "Final" => dst[last.i] = htolem64(last.r)

\* C5 (initial state): after SipHash_Init the state words are the four
\* constants XORed with k0, k1, k0, k1, the little-endian values stored in the
\* key's two halves; the staging buffer and the byte counter are zero.
C5_InitState ==
    last.op = "Init" =>
        mem[last.i] = InitWith(ZeroCtx,
                               lemtoh64(SubSeq(KeyBytes(last.n), 1, 8)),
                               lemtoh64(SubSeq(KeyBytes(last.n), 9, 16)))

\* C6 (staging-buffer invariant): while a computation is live, the byte
\* counter is the number n of input bytes given since SipHash_Init and the
\* staging buffer's slots 0 .. (n mod 8)-1 hold the last n mod 8 input bytes.
C6_StagingBuffer ==
    \A i \in Ctxs :
        life[i] = "live" =>
            /\ mem[i].bytes = fed[i]
            /\ \A j \in 1..(fed[i] % BufLen) :
                   mem[i].buf[j] = Input(i)[fed[i] - (fed[i] % BufLen) + j]

\* C7 (zero-length update): a call of SipHash_Update with len = 0 leaves the
\* state words, the staging buffer and the byte counter as they were.
C7_ZeroLengthNoOp ==
    [][(last'.op = "Update" /\ last'.n = 0) => mem' = mem]_vars

\* a zero-length update has been made on a context with staged bytes
C7_Witness ==
    /\ last.op = "Update"
    /\ last.n = 0
    /\ fed[last.i] % BufLen # 0

\* C8 as stated (round counts): for every count a caller passes, zero and
\* negative ones included, a call of SipHash_Rounds executes nothing undefined.
C8_EveryCountDefined == ~loop.undef

\* C8 as amended: for every count n >= 0 a call of SipHash_Rounds executes
\* nothing undefined and returns after exactly n SipRounds. At every test the
\* rounds left are >= 0 and add up, with the rounds done, to n, so the loop
\* makes at most n passes; the state returned is the one n SipRounds produce.
C8_NonNegativeCountReturns ==
    (loop.pc # "idle" /\ loop.n >= 0) =>
        /\ ~loop.undef
        /\ loop.pc = "test" => (loop.rounds >= 0 /\ loop.rounds + loop.count = loop.n)
        /\ loop.pc = "body" => (loop.rounds >= 0 /\ loop.rounds + loop.count + 1 = loop.n)
        /\ loop.pc = "done" => (/\ loop.rounds = -1
                                /\ loop.count = loop.n
                                /\ loop.v = SipHash_Rounds(loop.v0, loop.n))

\* a call with the largest positive count has returned
C8_Witness ==
    /\ loop.pc = "done"
    /\ loop.n = MaxRounds
    /\ loop.n > 0
    /\ loop.count = loop.n

\* what the calls h leave when they are made, alone, on a context at address
\* p: st.ctx the context, st.fed the input given, st.r the latest digest
Ended(st, e) == [st EXCEPT !.ctx = e.ctx, !.r = e.r]

ReplayCall(st, p, e) ==
    CASE e.op = "Init" ->
           [st EXCEPT !.ctx = SipHash_Init(@, e.a), !.fed = 0]
      [] e.op = "Update" ->
           [st EXCEPT !.ctx = SipHash_Update(@, p, rc, Msg(st.fed, e.a), e.hit).ctx,
                      !.fed = @ + e.a]
      [] e.op = "End" -> Ended(st, SipHash_End(st.ctx, p, rc, rf))

RECURSIVE Replay(_, _, _)
Replay(st, p, h) ==
    IF h = <<>> THEN st ELSE Replay(ReplayCall(st, p, Head(h)), p, Tail(h))

Alone(i) == Replay([ctx |-> RawCtx, fed |-> 0, r |-> Zero64], CtxAddr(i), hist[i])

\* C9 (independence): with two contexts driven by interleaved calls, each
\* context's contents after every step, and the digest its SipHash_End
\* returns, are those its own calls produce when they run alone.
C9_Independence ==
    \A i \in Ctxs : \A st \in {Alone(i)} :
        /\ mem[i] = st.ctx
        /\ fed[i] = st.fed
        /\ (last.op = "End" /\ last.i = i) => last.r = st.r

\* context 1 is ended while context 2 is in the middle of its input, and
\* both have had calls
C9_Witness ==
    /\ last.op = "End"
    /\ last.i = 1
    /\ fed[1] > 0
    /\ life[2] = "live"
    /\ fed[2] % BufLen # 0
    /\ Len(hist[2]) >= 2

\* C10 (buffer bounds): every write of SipHash_Update into the staging buffer
\* targets indices 0..7.
C10_BufferBounds ==
    last.op = "Update" => last.wr \subseteq 0..(BufLen - 1)

\* C11 (compression-round primitive): SipHash_CRounds(ctx, rounds) takes m,
\* the little-endian 64-bit value of the 8 bytes in the staging buffer,
\* performs v3 ^= m, `rounds` mixing rounds, v0 ^= m, and leaves the staging
\* buffer and the byte counter as they were.
C11_CompressionRound ==
    [][last'.op = "CRounds" =>
          mem'[last'.i] = CRoundsWith(mem[last'.i], lemtoh64(mem[last'.i].buf), last'.n)]_vars

\* The SipRound of the SipHash paper, stated on the 64 bits of each word
\* (bit 1 the least significant): addition modulo 2^64 as a ripple of
\* carries that drops the last one, rotation as a circular move of the bits.
WordBits(x) ==
    SubSeq([k \in 1..64 |-> (x[((k - 1) \div 16) + 1] \div 2^((k - 1) % 16)) % 2], 1, 64)

StateBits(v) == <<WordBits(v[1]), WordBits(v[2]), WordBits(v[3]), WordBits(v[4])>>

RotlBits(b, r) == SubSeq([k \in 1..64 |-> b[((k - 1 - r + 64) % 64) + 1]], 1, 64)

XorWordBits(a, b) == SubSeq([k \in 1..64 |-> (a[k] + b[k]) % 2], 1, 64)

RECURSIVE Ripple(_, _, _, _)
Ripple(a, b, k, carry) ==
    IF k > 64 THEN <<>>
    ELSE <<(a[k] + b[k] + carry) % 2>> \o Ripple(a, b, k + 1, (a[k] + b[k] + carry) \div 2)

AddBits(a, b) == Ripple(a, b, 1, 0)

\* v0 += v1; v2 += v3
Paper1(v) == <<AddBits(v[1], v[2]), v[2], AddBits(v[3], v[4]), v[4]>>
\* v1 = rotl(v1, 13); v3 = rotl(v3, 16)
Paper2(v) == <<v[1], RotlBits(v[2], 13), v[3], RotlBits(v[4], 16)>>
\* v1 ^= v0; v3 ^= v2
Paper3(v) == <<v[1], XorWordBits(v[2], v[1]), v[3], XorWordBits(v[4], v[3])>>
\* v0 = rotl(v0, 32)
Paper4(v) == <<RotlBits(v[1], 32), v[2], v[3], v[4]>>
\* v2 += v1; v0 += v3
Paper5(v) == <<AddBits(v[1], v[4]), v[2], AddBits(v[3], v[2]), v[4]>>
\* v1 = rotl(v1, 17); v3 = rotl(v3, 21)
Paper6(v) == <<v[1], RotlBits(v[2], 17), v[3], RotlBits(v[4], 21)>>
\* v1 ^= v2; v3 ^= v0
Paper7(v) == <<v[1], XorWordBits(v[2], v[3]), v[3], XorWordBits(v[4], v[1])>>
\* v2 = rotl(v2, 32)
Paper8(v) == <<v[1], v[2], RotlBits(v[3], 32), v[4]>>

PaperRound(v) == Paper8(Paper7(Paper6(Paper5(Paper4(Paper3(Paper2(Paper1(v))))))))

RECURSIVE PaperRounds(_, _)
PaperRounds(v, n) == IF n = 0 THEN v ELSE PaperRounds(PaperRound(v), n - 1)

\* C16 (mixing rounds): SipHash_Rounds(ctx, n), n >= 0, applies the SipRound
\* exactly n times (n = 0: nothing changes), each round with addition modulo
\* 2^64 and circular left rotations by 13, 16, 32, 17, 21, 32 in the paper's
\* order, and touches only v[0..3].
C16_MixingRounds ==
    [][last'.op = "Rounds" =>
          /\ StateBits(mem'[last'.i].v) = PaperRounds(StateBits(mem[last'.i].v), last'.n)
          /\ mem'[last'.i].buf = mem[last'.i].buf
          /\ mem'[last'.i].bytes = mem[last'.i].bytes]_vars

\* the largest number of rounds has been applied to a context that holds
\* staged input
C16_Witness ==
    /\ last.op = "Rounds"
    /\ last.n = MaxRounds
    /\ last.n > 0
    /\ fed[last.i] % BufLen # 0

\* the final block of an input s: its last Len(s) mod 8 bytes, zeros up to
\* slot 6, and Len(s) mod 256 in slot 7
FinalBlockOf(s) ==
    LET n == Len(s)
        b(j) == IF j = BufLen THEN n % 256
                ELSE IF j <= n % BufLen THEN s[n - (n % BufLen) + j]
                ELSE 0
    IN <<b(1), b(2), b(3), b(4), b(5), b(6), b(7), b(8)>>

\* C12 (final block): the block SipHash_End absorbs after Updates whose
\* concatenated input is s, of length n, holds the last n mod 8 bytes of s in
\* slots 0 .. (n mod 8)-1, zeros in the slots up to 6 and n mod 256 in slot
\* 7; no stale byte of an earlier block appears in it.
C12_FinalBlock ==
    last.op \in {"End", "Final"} => last.abs = <<FinalBlockOf(Input(last.i))>>

\* the steps of the finalization, one after the other, on a context c at
\* address p: the state words after the absorption of the padded block ...
Absorbed(c, p) == SipHash_CRounds([c EXCEPT !.buf = PadBlock(c)], p, rc).v
\* ... after v2 ^= 0xff ...
Marked(v) == [v EXCEPT ![3] = Xor64(@, <<255, 0, 0, 0>>)]
\* ... and after the rf plain rounds
Finalized(c, p) == SipHash_Rounds(Marked(Absorbed(c, p)), rf)

\* C13 (finalization order): SipHash_End makes one call of SipHash_CRounds
\* on the padded block with rc rounds, then v2 ^= 0xff, then rf plain rounds,
\* then reads (v0 ^ v1) ^ (v2 ^ v3), then wipes the context; it returns the
\* value read before the wipe.
C13_FinalizationOrder ==
    [][last'.op = "End" =>
          /\ last'.abs = <<PadBlock(mem[last'.i])>>
          /\ last'.r = Digest(Finalized(mem[last'.i], CtxAddr(last'.i)))
          /\ mem'[last'.i] = ZeroCtx]_vars

\* a computation with staged bytes has been finalized with rc > 0 and rf > 0
C13_Witness ==
    /\ last.op = "End"
    /\ rc > 0
    /\ rf > 0
    /\ fed[last.i] % BufLen # 0
    /\ last.r # Zero64

\* C14 (block accounting): the Updates of a computation that have given n
\* bytes have called SipHash_CRounds floor(n/8) times, however the input is
\* chunked, so each Update adds the blocks its bytes complete; SipHash_End
\* adds exactly one call.
C14_BlockAccounting ==
    [][/\ last'.op = "Update" =>
             Len(last'.abs) = (fed'[last'.i] \div BufLen) - (fed[last'.i] \div BufLen)
       /\ last'.op \in {"End", "Final"} => Len(last'.abs) = 1]_vars

\* what C15 says of a call of SipHash_Update on the context c with the
\* bytes src, 0 < used = c.bytes mod 8, when the call absorbs the blocks abs
\* and leaves the context d
ToppedUp(c, src, abs) ==
    /\ Len(abs) >= 1
    /\ abs[1] = SubSeq(c.buf, 1, c.bytes % BufLen)
                \o SubSeq(src, 1, BufLen - (c.bytes % BufLen))

Appended(c, src, abs, d) ==
    /\ abs = <<>>
    /\ d.v = c.v
    /\ \A j \in 1..BufLen :
          d.buf[j] = IF j > c.bytes % BufLen /\ j <= (c.bytes % BufLen) + Len(src)
                     THEN src[j - (c.bytes % BufLen)]
                     ELSE c.buf[j]

\* C15 (top-up absorption): a call of SipHash_Update with used = bytes mod 8
\* > 0 and len >= 8 - used first absorbs the block made of the used staged
\* bytes followed by the first 8 - used bytes of the new input; with 0 < len
\* < 8 - used it absorbs nothing, stores the len bytes at slots used ..
\* used+len-1 and leaves v[0..3] as they were.
C15_TopUp ==
    [][(/\ last'.op = "Update"
        /\ last'.n > 0
        /\ mem[last'.i].bytes % BufLen > 0)
       => IF last'.n >= BufLen - (mem[last'.i].bytes % BufLen)
          THEN ToppedUp(mem[last'.i], Msg(fed[last'.i], last'.n), last'.abs)
          ELSE Appended(mem[last'.i], Msg(fed[last'.i], last'.n), last'.abs,
                        mem'[last'.i])]_vars

\* a call that found staged bytes has completed and absorbed their block
C15_Witness ==
    /\ last.op = "Update"
    /\ last.n > 0
    /\ (fed[last.i] - last.n) % BufLen # 0
    /\ Len(last.abs) >= 1
    /\ last.abs[1] = SubSeq(Input(last.i), 1, BufLen)

\* the calls of h from its last SipHash_Init on
RECURSIVE SinceInit(_)
SinceInit(h) ==
    IF h = <<>> THEN <<>>
    ELSE IF h[Len(h)].op = "Init" THEN <<h[Len(h)]>>
    ELSE SinceInit(SubSeq(h, 1, Len(h) - 1)) \o <<h[Len(h)]>>

\* what the calls since the last SipHash_Init leave when they are made on a
\* fresh context
Afresh(i) ==
    Replay([ctx |-> RawCtx, fed |-> 0, r |-> Zero64], CtxAddr(i), SinceInit(hist[i]))

\* C17 (re-initialization): SipHash_Init overwrites every field, so after a
\* SipHash_Init on a context in any state (fresh, mid-stream, wiped) the
\* context is the one a fresh context gets with the same key, and the Update
\* and End calls that follow leave the same contents and return the same
\* digest as on a fresh context.
C17_Reinitialization ==
    \A i \in Ctxs : \A st \in {Afresh(i)} :
        hist[i] # <<>> =>
            /\ mem[i] = st.ctx
            /\ (last.op = "End" /\ last.i = i) => last.r = st.r

\* a context with staged bytes has been initialized again, with another key
C17_Witness ==
    /\ last.op = "Init"
    /\ Len(hist[last.i]) = 3
    /\ hist[last.i][1].op = "Init"
    /\ hist[last.i][2].op = "Update"
    /\ hist[last.i][1].a # hist[last.i][3].a

====
